---------------------------- MODULE Spec2Model ----------------------------
(***************************************************************************)
(* A model of src/src/lab.c: the tokenizer (cmd_parse), the trimmer        *)
(* (trim_white), the prompt resolver (get_prompt), the directory changer   *)
(* (change_dir), the builtin dispatcher (do_builtin) and the session       *)
(* lifecycle (sh_init / sh_destroy).                                       *)
(*                                                                         *)
(* C strings are sequences of one-character strings; a buffer is such a    *)
(* sequence ending in NUL, and a pointer into a buffer is an index into    *)
(* the sequence.  The control characters are written HT, CR, LF, VT, FF.   *)
(***************************************************************************)
EXTENDS Integers, Sequences, FiniteSets, TLC

VARIABLES
    running,     \* "running", or how the process ended: "exit0", "exit1", "abort"
    last,        \* the most recent call: [op, arg, ret]
    trace,       \* the calls the most recent operation made, in order (for cmd_parse:
                 \* the allocations of the current call that returned NULL)
    input,       \* the caller's buffer: a NUL-terminated line, or NULLS for no buffer
    allocFail,   \* TRUE when the heap is exhaustible: an allocation may return NULL
    pc,          \* position inside cmd_parse: "idle" or "while" (at the loop test)
    line,        \* cmd_parse: the part of the argument the model holds
    base,        \* cmd_parse: tokens of the argument consumed before that part
    line_copy,   \* cmd_parse: the working copy strtok cuts up, or NULLS
    save,        \* strtok's saved position in line_copy
    token,       \* cmd_parse: the token strtok returned last (an index), or NULLP
    tokens,      \* cmd_parse: the token array, slot index -> string or NULLS
    position,    \* cmd_parse: the next slot to write
    bufsize,     \* cmd_parse: the allocated capacity, a C int
    env,         \* the process environment: name -> value or Unset
    cwd,         \* the working directory
    pw,          \* the user-database entry of the current user: its pw_dir, or NoEntry
    stdinTty,    \* whether standard input is a terminal
    pgrp,        \* the process group of the process
    termFg,      \* the foreground process group of the terminal
    sh,          \* struct shell
    heap         \* the prompt strings allocated so far: 1..n -> [str, frees]

vars == <<running, last, trace, input, allocFail, pc, line, base, line_copy, save, token,
          tokens, position, bufsize, env, cwd, pw, stdinTty, pgrp, termFg, sh, heap>>

textVars == <<pc, line, base, line_copy, save, token, tokens, position, bufsize>>
shellVars == <<env, cwd, pw, stdinTty, pgrp, termFg, sh, heap>>

----------------------------------------------------------------------------
(* Bounds of the model.                                                    *)

MaxLen == 4          \* longest input line / buffer drawn character by character
MaxTokens == 130     \* longest line of one-letter tokens (crosses 64 and 128)
MaxTail == 3         \* tokens still to come when the loop starts near a boundary
MaxAllocs == 3       \* prompt strings allocated in one run

----------------------------------------------------------------------------
(* Characters and C strings.                                               *)

NUL == "NUL"
\* The null pointer: as a buffer position (positions start at 1), and as a string.
NULLP == 0
NULLS == <<"NULL">>
Letters == {"a", "b"}
Alphabet == Letters \cup {" ", "HT", "CR", "LF", "VT"}

\* A delimiter string that leaves the carriage return out.
DelimsNoCR == {" ", "HT", "LF"}

\* The delimiter string " \t\r\n" handed to strtok.
Delims == {" ", "HT", "CR", "LF"}

\* isspace() in the "C" locale (no setlocale call is made).
IsSpace(c) == c \in {" ", "HT", "LF", "VT", "FF", "CR"}

RECURSIVE StringsUpTo(_)
StringsUpTo(n) ==
    IF n = 0 THEN {<<>>}
    ELSE LET S == StringsUpTo(n - 1)
         IN  S \cup {Append(s, c) : s \in {t \in S : Len(t) = n - 1}, c \in Alphabet}

Lines == StringsUpTo(MaxLen)

\* The first position from p on whose character is in S, and the first whose
\* character is not; every buffer ends in NUL, which stops the scans below.
FirstIn(buf, p, S) ==
    CHOOSE i \in p..Len(buf) : buf[i] \in S /\ \A j \in p..(i - 1) : buf[j] \notin S
FirstNotIn(buf, p, S) ==
    CHOOSE i \in p..Len(buf) : buf[i] \notin S /\ \A j \in p..(i - 1) : buf[j] \in S

\* strlen(buf + p)
Strlen(buf, p) == FirstIn(buf, p, {NUL}) - p

\* strspn(buf + p, set)
Strspn(buf, p, set) == FirstNotIn(buf, p, set \ {NUL}) - p

\* strcspn(buf + p, set)
Strcspn(buf, p, set) == FirstIn(buf, p, set \cup {NUL}) - p

\* The string a pointer designates: the characters from p up to the first NUL.
CStr(buf, p) == SubSeq(buf, p, p + Strlen(buf, p) - 1)

\* strtok(s, delims) on buffer buf with saved position sv; s = NULL continues at sv.
Strtok(buf, s, sv, delims) ==
    LET s0 == IF s = NULLP THEN sv ELSE s
        s1 == s0 + Strspn(buf, s0, delims)
        e  == s1 + Strcspn(buf, s1, delims)
    IN  IF buf[s1] = NUL THEN [tok |-> NULLP, save |-> s1, buf |-> buf]
        ELSE IF buf[e] = NUL THEN [tok |-> s1, save |-> e, buf |-> buf]
        ELSE [tok |-> s1, save |-> e + 1, buf |-> [buf EXCEPT ![e] = NUL]]

----------------------------------------------------------------------------
(* The allocator.                                                          *)

\* What malloc / strdup / realloc can answer: TRUE for a block, FALSE for NULL.
AllocOutcomes == IF allocFail THEN {TRUE, FALSE} ELSE {TRUE}

\* The largest value of a C int.
INT_MAX == 2147483647

\* bufsize *= 2 on an int: whether the product overflows.
Overflows(n) == n > INT_MAX - n

\* What signed overflow does in a build: wrap to the low 32 bits, or trap.
OverflowOutcomes == {"wrap", "trap"}

\* 2n reduced to a 32-bit two's complement int, for n in 2^30 .. INT_MAX.
WrapDouble(n) == (n - 2^30 - 2^30) + (n - 2^30 - 2^30)

----------------------------------------------------------------------------
(* cmd_parse                                                               *)

InitialBufsize == 64

\* The array with slot i written.
Store(arr, i, v) == [j \in (DOMAIN arr) \cup {i} |-> IF j = i THEN v ELSE arr[j]]

\* What a consumer of the returned vector reads: the slots from i up to the
\* first NULL.
Walk(arr, i) ==
    LET end == CHOOSE k \in DOMAIN arr :
                   /\ k >= i /\ arr[k] = NULLS
                   /\ \A j \in i..(k - 1) : arr[j] # NULLS
    IN  [n \in 1..(end - i) |-> arr[i + n - 1]]

\* What strtok(NULL, ...) does when line_copy is NULL: it reads its saved
\* position.  Before any call that is a null pointer, and the read faults; later
\* it points at the end of a freed working copy, where the read faults or finds
\* the old NUL.
StaleStrtokOutcomes == IF save = NULLP THEN {"crash"} ELSE {"crash", "no token"}

\* Lines 79-90: the array, the working copy, the first strtok.
cmd_parse_enter ==
    /\ running = "running" /\ pc = "idle"
    /\ input # NULLS
    /\ line' = CStr(input, 1) /\ base' = 0 /\ position' = 0 /\ bufsize' = InitialBufsize
    /\ tokens' = <<>>
    /\ \E okArr \in AllocOutcomes, okCopy \in AllocOutcomes, stale \in StaleStrtokOutcomes :
         IF ~okArr
         THEN /\ running' = "exit1" /\ trace' = <<"malloc failed">>
              /\ pc' = "idle" /\ line_copy' = NULLS /\ token' = NULLP
              /\ UNCHANGED save
         ELSE IF okCopy
         THEN LET buf == Append(CStr(input, 1), NUL)
                  r == Strtok(buf, 1, save, Delims)
              IN  /\ line_copy' = r.buf /\ save' = r.save /\ token' = r.tok
                  /\ pc' = "while" /\ trace' = <<>> /\ UNCHANGED running
         ELSE /\ line_copy' = NULLS /\ trace' = <<"strdup(line) failed">>
              /\ UNCHANGED save
              /\ IF stale = "crash"
                 THEN running' = "abort" /\ pc' = "idle" /\ token' = NULLP
                 ELSE UNCHANGED running /\ pc' = "while" /\ token' = NULLP
    /\ last' = [op |-> "cmd_parse_enter"]
    /\ UNCHANGED <<allocFail, input, env, cwd, pw, stdinTty, pgrp, termFg, sh, heap>>

\* Lines 91-104: one iteration of the while loop.
cmd_parse_loop ==
    /\ running = "running" /\ pc = "while" /\ token # NULLP
    /\ position' = position + 1
    /\ \E okTok \in AllocOutcomes, okGrow \in AllocOutcomes, ov \in OverflowOutcomes :
         LET copy == IF okTok THEN CStr(line_copy, token) ELSE NULLS
             t1 == IF okTok THEN trace ELSE Append(trace, "strdup(token) failed")
             r == Strtok(line_copy, NULLP, save, Delims)
         IN  /\ tokens' = Store(tokens, position, copy)
             /\ IF position + 1 < bufsize
                THEN /\ line_copy' = r.buf /\ save' = r.save /\ token' = r.tok
                     /\ trace' = t1
                     /\ UNCHANGED <<bufsize, running, pc>>
                ELSE IF Overflows(bufsize)
                THEN /\ pc' = "idle" /\ UNCHANGED <<line_copy, save, token>>
                     /\ IF ov = "wrap"
                        \* realloc of (size_t)bufsize * 8 bytes, bufsize negative: NULL
                        THEN /\ bufsize' = WrapDouble(bufsize)
                             /\ running' = "exit1"
                             /\ trace' = Append(t1, "realloc failed")
                        ELSE /\ running' = "abort" /\ trace' = t1
                             /\ UNCHANGED bufsize
                ELSE /\ bufsize' = bufsize * 2
                     /\ IF okGrow
                        THEN /\ line_copy' = r.buf /\ save' = r.save /\ token' = r.tok
                             /\ trace' = t1
                             /\ UNCHANGED <<running, pc>>
                        ELSE /\ running' = "exit1" /\ pc' = "idle"
                             /\ trace' = Append(t1, "realloc failed")
                             /\ UNCHANGED <<line_copy, save, token>>
    /\ last' = [op |-> "cmd_parse_loop"]
    /\ UNCHANGED <<line, base, allocFail, input, env, cwd, pw, stdinTty, pgrp, termFg, sh, heap>>

\* Lines 105-107: the terminator, free(line_copy), return.  The locals end with
\* the call; what the caller holds is kept in last.
cmd_parse_return ==
    /\ running = "running" /\ pc = "while" /\ token = NULLP
    /\ last' = [op |-> "cmd_parse", arg |-> line, ret |-> Store(tokens, position, NULLS),
                base |-> base, capacity |-> bufsize]
    /\ pc' = "idle"
    /\ line' = <<>> /\ base' = 0 /\ line_copy' = NULLS /\ token' = NULLP
    /\ tokens' = <<>> /\ position' = 0 /\ bufsize' = InitialBufsize
    /\ UNCHANGED <<running, trace, allocFail, input, save,
                   env, cwd, pw, stdinTty, pgrp, termFg, sh, heap>>

----------------------------------------------------------------------------
(* trim_white                                                              *)

\* Line 136: the count of leading characters the first loop steps over.
RECURSIVE SkipSpace(_, _)
SkipSpace(buf, p) ==
    IF buf[p] # NUL /\ IsSpace(buf[p]) THEN 1 + SkipSpace(buf, p + 1) ELSE 0

\* The second loop stepping back over spaces only, not over all of isspace.
RECURSIVE BackOverSpaceOnly(_, _, _)
BackOverSpaceOnly(buf, lo, e) ==
    IF e > lo /\ buf[e] = " " THEN BackOverSpaceOnly(buf, lo, e - 1) ELSE e

\* Lines 146-148: where the second loop leaves end.
RECURSIVE BackOver(_, _, _)
BackOver(buf, lo, e) ==
    IF e > lo /\ IsSpace(buf[e]) THEN BackOver(buf, lo, e - 1) ELSE e

\* trim_white(line) on buffer buf: the pointer returned and the buffer afterwards.
TrimWhite(buf) ==
    IF buf = NULLS THEN [ret |-> NULLP, buf |-> buf]
    ELSE LET start == 1 + SkipSpace(buf, 1)
         IN  IF buf[start] = NUL THEN [ret |-> start, buf |-> buf]
             ELSE LET end == BackOver(buf, start, start + Strlen(buf, start) - 1)
                  IN  [ret |-> start, buf |-> [buf EXCEPT ![end + 1] = NUL]]

Buffers == {Append(l, NUL) : l \in Lines} \cup {NULLS}

\* The call on the caller's buffer, which it changes in place.
trim_white ==
    /\ running = "running" /\ pc = "idle"
    /\ LET r == TrimWhite(input)
       IN  /\ last' = [op |-> "trim_white", arg |-> input, ret |-> r.ret]
           /\ input' = r.buf
    /\ UNCHANGED <<running, trace, allocFail, textVars, shellVars>>

----------------------------------------------------------------------------
(* The environment and the file system.                                    *)

\* An entry of trace: a library or system call and its argument.
Call(c, a) == [call |-> c, arg |-> a]

\* What getenv answers for a name that is not set.
Unset == "<unset>"

Getenv(name) == env[name]

EnvNames == {"MY_PROMPT", "HOME", "SKIP_EXIT", "SKIP_TC"}

EnvValues(name) ==
    CASE name = "MY_PROMPT" -> {"", "foo>", "shell>"}
      [] name = "HOME"      -> {"", "/home/u", "/invalid/path"}
      [] OTHER              -> {"", "1", "10"}

\* The directories that exist; chdir to any other path fails.
Dirs == {"/", "/home/u", "/tmp"}

\* getpwuid(getuid()): no entry, or an entry with this pw_dir.
NoEntry == "<no entry>"
PwEntries == {NoEntry, "/home/u", "/"}

\* setenv(name, value, 1), as the tests' setUp and bodies call it.
Setenv(name, value) ==
    /\ running = "running" /\ pc = "idle"
    /\ env' = [env EXCEPT ![name] = value]
    /\ last' = [op |-> "setenv", arg |-> name]
    /\ trace' = <<>>
    /\ UNCHANGED <<running, allocFail, input, textVars, cwd, pw, stdinTty, pgrp, termFg, sh, heap>>

\* unsetenv(name), as the tests' tearDown calls it.
Unsetenv(name) ==
    /\ running = "running" /\ pc = "idle"
    /\ env' = [env EXCEPT ![name] = Unset]
    /\ last' = [op |-> "unsetenv", arg |-> name]
    /\ trace' = <<>>
    /\ UNCHANGED <<running, allocFail, input, textVars, cwd, pw, stdinTty, pgrp, termFg, sh, heap>>

----------------------------------------------------------------------------
(* get_prompt                                                              *)

\* strdup(s): the copy holds the characters of s.
Strdup(s) == s

\* get_prompt taking an empty value for no value.
GetPromptEmptyIsUnset(name) ==
    LET env_val == Getenv(name)
    IN  IF env_val # Unset /\ env_val # "" THEN Strdup(env_val) ELSE Strdup("shell>")

\* Lines 19-26: the string the returned copy holds.
GetPrompt(name) ==
    LET env_val == Getenv(name)
    IN  IF env_val # Unset THEN Strdup(env_val) ELSE Strdup("shell>")

get_prompt(name) ==
    /\ running = "running" /\ pc = "idle"
    /\ last' = [op |-> "get_prompt", arg |-> name, ret |-> GetPrompt(name)]
    /\ trace' = <<Call("getenv", name), Call("strdup", GetPrompt(name))>>
    /\ UNCHANGED <<running, allocFail, input, textVars, shellVars>>

----------------------------------------------------------------------------
(* change_dir                                                              *)

\* Argument vectors are sequences of strings; the C index i is i + 1 here, and
\* the slot after the last element is the NULL terminator.
Arg(argv, i) == IF i + 1 <= Len(argv) THEN argv[i + 1] ELSE Unset

NoTarget == "<no target>"

\* change_dir asking the user database before HOME.
TargetPwBeforeHome(dir) ==
    IF Arg(dir, 1) = Unset
    THEN IF pw # NoEntry
         THEN [target |-> pw, calls |-> <<Call("getpwuid", "")>>]
         ELSE IF Getenv("HOME") # Unset
         THEN [target |-> Getenv("HOME"), calls |-> <<Call("getpwuid", ""), Call("getenv", "HOME")>>]
         ELSE [target |-> NoTarget,
               calls |-> <<Call("getpwuid", ""), Call("getenv", "HOME"), Call("perror", "")>>]
    ELSE [target |-> Arg(dir, 1), calls |-> <<>>]

\* Lines 40-57: the directory change_dir settles on, and the lookups it makes.
Target(dir) ==
    IF Arg(dir, 1) = Unset
    THEN IF Getenv("HOME") # Unset
         THEN [target |-> Getenv("HOME"), calls |-> <<Call("getenv", "HOME")>>]
         ELSE IF pw # NoEntry
         THEN [target |-> pw, calls |-> <<Call("getenv", "HOME"), Call("getpwuid", "")>>]
         ELSE [target |-> NoTarget,
               calls |-> <<Call("getenv", "HOME"), Call("getpwuid", ""), Call("perror", "")>>]
    ELSE [target |-> Arg(dir, 1), calls |-> <<>>]

\* chdir(path): 0 and the new working directory, or -1 and the old one.
Chdir(path) ==
    IF path \in Dirs THEN [ret |-> 0, cwd |-> path] ELSE [ret |-> 0 - 1, cwd |-> cwd]

\* Lines 39-64: the return value, the working directory afterwards, the calls made.
ChangeDir(dir) ==
    LET t == Target(dir)
        c == Chdir(t.target)
    IN  IF t.target = NoTarget
        THEN [ret |-> 0 - 1, cwd |-> cwd, calls |-> t.calls]
        ELSE [ret |-> c.ret, cwd |-> c.cwd,
              calls |-> t.calls \o <<Call("chdir", t.target)>>
                        \o (IF c.ret # 0 THEN <<Call("perror", "")>> ELSE <<>>)]

CdArgvs == {<<"cd">>, <<"cd", "/">>, <<"cd", "/home/u">>, <<"cd", "/invalid/path">>,
            <<"cd", "">>, <<"cd", "/", "/home/u">>}

change_dir(dir) ==
    /\ running = "running" /\ pc = "idle"
    /\ LET r == ChangeDir(dir)
       IN  /\ cwd' = r.cwd
           /\ trace' = r.calls
           /\ last' = [op |-> "change_dir", arg |-> dir, ret |-> r.ret, from |-> cwd]
    /\ UNCHANGED <<running, allocFail, input, textVars, env, pw, stdinTty, pgrp, termFg, sh, heap>>

----------------------------------------------------------------------------
(* do_builtin                                                              *)

\* The bypass taken for any value of SKIP_EXIT.
SkipExitAnyValue == Getenv("SKIP_EXIT") # Unset

\* Line 172: whether SKIP_EXIT asks do_builtin not to exit.
SkipExit ==
    LET skip_exit == Getenv("SKIP_EXIT")
    IN  skip_exit # Unset /\ skip_exit = "1"

\* The dispatcher without its history branch.
BuiltinNoHistory(argv0) ==
    IF argv0 = "exit" THEN "exit"
    ELSE IF argv0 = "cd" THEN "cd"
    ELSE ""

\* Lines 169-183: which builtin the first token names, "" for none.
Builtin(argv0) ==
    IF argv0 = "exit" THEN "exit"
    ELSE IF argv0 = "cd" THEN "cd"
    ELSE IF argv0 = "history" THEN "history"
    ELSE ""

Argvs == CdArgvs \cup {NULLS, <<>>, <<"exit">>, <<"exit", "1">>, <<"history">>,
                       <<"ls", "-a">>, <<"exit1">>, <<"">>, <<"CD">>, <<"echo", "cd">>}

do_builtin(argv) ==
    /\ running = "running" /\ pc = "idle"
    /\ IF argv = NULLS \/ Arg(argv, 0) = Unset
       THEN /\ last' = [op |-> "do_builtin", arg |-> argv, ret |-> FALSE, from |-> cwd]
            /\ trace' = <<>>
            /\ UNCHANGED <<running, cwd>>
       ELSE LET b == Builtin(Arg(argv, 0))
                r == ChangeDir(argv)
            IN  IF b = "exit"
                THEN IF SkipExit
                     THEN /\ last' = [op |-> "do_builtin", arg |-> argv, ret |-> TRUE,
                                      from |-> cwd]
                          /\ trace' = <<Call("getenv", "SKIP_EXIT")>>
                          /\ UNCHANGED <<running, cwd>>
                     ELSE /\ last' = [op |-> "do_builtin", arg |-> argv, ret |-> "none",
                                      from |-> cwd]
                          /\ trace' = <<Call("getenv", "SKIP_EXIT"), Call("exit", "0")>>
                          /\ running' = "exit0"
                          /\ UNCHANGED cwd
                ELSE IF b = "cd"
                THEN /\ last' = [op |-> "do_builtin", arg |-> argv, ret |-> TRUE,
                                 from |-> cwd]
                     /\ trace' = r.calls
                     /\ cwd' = r.cwd
                     /\ UNCHANGED running
                ELSE /\ last' = [op |-> "do_builtin", arg |-> argv,
                                 ret |-> (b = "history"), from |-> cwd]
                     /\ trace' = <<>>
                     /\ UNCHANGED <<running, cwd>>
    /\ UNCHANGED <<allocFail, input, textVars, env, pw, stdinTty, pgrp, termFg, sh, heap>>

----------------------------------------------------------------------------
(* sh_init and sh_destroy                                                  *)

\* A field of struct shell that nothing has written yet.
Indet == "<indeterminate>"
\* The same for the prompt pointer; prompts are positions in heap, from 1.
IndetPtr == -1

\* getpid(), and the process group the process starts in.
Pid == "pid"
ParentPgrp == "parent pgrp"

\* What tcgetattr stores.
TermAttrs == "termios"

\* Terminal control suppressed by any value of SKIP_TC.
TcSetupAnyValue(interactive) == interactive /\ Getenv("SKIP_TC") = Unset

\* Line 205: whether sh_init sets up terminal control.
TcSetup(interactive) ==
    LET skip_tc == Getenv("SKIP_TC")
    IN  interactive /\ (skip_tc = Unset \/ skip_tc # "1")

\* malloc'ed prompt strings: allocation and free.
HeapAlloc(str) == Append(heap, [str |-> str, frees |-> 0])
HeapFree(p) == [heap EXCEPT ![p].frees = @ + 1]

\* sh_destroy freeing the prompt and leaving the pointer in place.
ShDestroyKeepsPointer ==
    IF sh.prompt # NULLP
    THEN [sh |-> sh, heap |-> [heap EXCEPT ![sh.prompt].frees = @ + 1],
          calls |-> <<Call("free", "prompt")>>]
    ELSE [sh |-> sh, heap |-> heap, calls |-> <<>>]

\* Lines 230-233: the session and the heap after sh_destroy.
ShDestroy ==
    IF sh.prompt # NULLP
    THEN [sh |-> [sh EXCEPT !.prompt = NULLP], heap |-> HeapFree(sh.prompt),
          calls |-> <<Call("free", "prompt")>>]
    ELSE [sh |-> sh, heap |-> heap, calls |-> <<>>]

\* Lines 202-204: what sh_init calls before it decides on terminal control.
TtyCalls == <<Call("isatty", "STDIN_FILENO"), Call("getenv", "SKIP_TC")>>

\* Lines 207-216 in order, given whether setpgid succeeds.
TcCalls(pgOk) ==
    IF pgOk
    THEN <<Call("getpid", ""), Call("setpgid", Pid), Call("tcgetattr", "STDIN_FILENO"),
           Call("tcsetpgrp", Pid)>>
    ELSE <<Call("getpid", ""), Call("setpgid", Pid), Call("perror", ""), Call("exit", "1")>>

\* Lines 197-220.  p is the argument: "sh" for the session, "NULL" for none.
sh_init(p) ==
    /\ running = "running" /\ pc = "idle"
    /\ Len(heap) < MaxAllocs
    /\ IF p = "NULL"
       THEN /\ last' = [op |-> "sh_init", arg |-> p]
            /\ trace' = <<>>
            /\ UNCHANGED <<running, sh, heap, pgrp, termFg>>
       ELSE \E pgOk \in BOOLEAN, attrOk \in BOOLEAN, fgOk \in BOOLEAN :
            LET s1 == [sh EXCEPT !.shell_terminal = "STDIN_FILENO",
                                 !.shell_is_interactive = IF stdinTty THEN "1" ELSE "0"]
                s2 == [s1 EXCEPT !.shell_pgid = Pid]
                s3 == IF attrOk THEN [s2 EXCEPT !.shell_tmodes = TermAttrs] ELSE s2
                heap1 == HeapAlloc(GetPrompt("MY_PROMPT"))
            IN  /\ last' = [op |-> "sh_init", arg |-> p]
                /\ IF TcSetup(stdinTty)
                   THEN IF pgOk
                        THEN /\ pgrp' = Pid
                             /\ termFg' = IF fgOk THEN Pid ELSE termFg
                             /\ heap' = heap1
                             /\ sh' = [s3 EXCEPT !.prompt = Len(heap1)]
                             /\ trace' = TtyCalls \o TcCalls(TRUE)
                                         \o <<Call("get_prompt", "MY_PROMPT")>>
                             /\ UNCHANGED running
                        ELSE /\ running' = "exit1"
                             /\ sh' = s2
                             /\ trace' = TtyCalls \o TcCalls(FALSE)
                             /\ UNCHANGED <<pgrp, termFg, heap>>
                   ELSE /\ heap' = heap1
                        /\ sh' = [s1 EXCEPT !.prompt = Len(heap1)]
                        /\ trace' = TtyCalls \o <<Call("get_prompt", "MY_PROMPT")>>
                        /\ UNCHANGED <<running, pgrp, termFg>>
    /\ UNCHANGED <<allocFail, input, textVars, env, cwd, pw, stdinTty>>

\* Lines 228-234.  Called on a session sh_init has initialised (or on none).
sh_destroy(p) ==
    /\ running = "running" /\ pc = "idle"
    /\ sh.prompt # IndetPtr
    /\ last' = [op |-> "sh_destroy", arg |-> p]
    /\ IF p = "NULL"
       THEN trace' = <<>> /\ UNCHANGED <<sh, heap>>
       ELSE LET r == ShDestroy
            IN  sh' = r.sh /\ heap' = r.heap /\ trace' = r.calls
    /\ UNCHANGED <<running, allocFail, input, textVars, env, cwd, pw, stdinTty, pgrp, termFg>>

----------------------------------------------------------------------------
(* Specifications.                                                         *)

\* The locals of cmd_parse before any call.
TextInit ==
    /\ pc = "idle" /\ line = <<>> /\ base = 0 /\ line_copy = NULLS
    /\ save = NULLP /\ token = NULLP /\ tokens = <<>> /\ position = 0
    /\ bufsize = InitialBufsize

\* The process as main() finds it, with the session declared and not initialised.
ShellInit ==
    /\ env = [n \in EnvNames |-> Unset]
    /\ cwd = "/tmp"
    /\ pgrp = ParentPgrp /\ termFg = ParentPgrp
    /\ sh = [shell_terminal |-> Indet, shell_is_interactive |-> Indet,
             shell_pgid |-> Indet, shell_tmodes |-> Indet, prompt |-> IndetPtr]
    /\ heap = <<>>

CommonInit == running = "running" /\ last = [op |-> "none"] /\ trace = <<>>

\* The tokenizer and the trimmer on every short line; every allocation succeeds.
InitText ==
    /\ CommonInit /\ TextInit /\ ShellInit
    /\ allocFail = FALSE /\ pw = NoEntry /\ stdinTty = FALSE
    /\ input \in Buffers

cmd_parse_step ==
    \/ cmd_parse_enter
    \/ cmd_parse_loop
    \/ cmd_parse_return

NextText == cmd_parse_step \/ trim_white

SpecText == InitText /\ [][NextText]_vars

\* The tokenizer with a heap that can run out.
InitOOM ==
    /\ CommonInit /\ TextInit /\ ShellInit
    /\ allocFail = TRUE /\ pw = NoEntry /\ stdinTty = FALSE
    /\ input \in Buffers \ {NULLS}

SpecOOM == InitOOM /\ [][cmd_parse_step]_vars

\* The directory changer and the dispatcher.
InitDispatch ==
    /\ CommonInit /\ TextInit /\ ShellInit
    /\ allocFail = FALSE /\ pw \in PwEntries /\ stdinTty = FALSE
    /\ input = NULLS

NextDispatch ==
    \/ \E n \in {"HOME", "SKIP_EXIT"} : \E v \in EnvValues(n) : Setenv(n, v)
    \/ \E n \in {"HOME", "SKIP_EXIT"} : Unsetenv(n)
    \/ \E dir \in CdArgvs : change_dir(dir)
    \/ \E argv \in Argvs : do_builtin(argv)

SpecDispatch == InitDispatch /\ [][NextDispatch]_vars

\* The session lifecycle and the prompt resolver.
InitSession ==
    /\ CommonInit /\ TextInit /\ ShellInit
    /\ allocFail = FALSE /\ pw = NoEntry /\ stdinTty \in BOOLEAN
    /\ input = NULLS

NextSession ==
    \/ \E n \in {"MY_PROMPT", "SKIP_TC"} : \E v \in EnvValues(n) : Setenv(n, v)
    \/ \E n \in {"MY_PROMPT", "SKIP_TC"} : Unsetenv(n)
    \/ \E n \in {"MY_PROMPT", "SKIP_TC"} : get_prompt(n)
    \/ \E p \in {"sh", "NULL"} : sh_init(p)
    \/ \E p \in {"sh", "NULL"} : sh_destroy(p)

SpecSession == InitSession /\ [][NextSession]_vars

\* The tokenizer on long lines: n one-letter tokens, one space between them.
Rep(n) == [i \in 1..(IF n = 0 THEN 0 ELSE 2 * n - 1) |-> IF i % 2 = 1 THEN "a" ELSE " "]

\* The capacity at the loop test once p tokens are stored: lines 79 and 95-96 leave
\* 64 below 64 tokens and the next doubling above p from there on.
RECURSIVE CapacityAt(_)
CapacityAt(p) == IF p < InitialBufsize THEN InitialBufsize ELSE 2 * CapacityAt(p \div 2)

\* Every capacity the doubling reaches in an int.
RECURSIVE CapacitiesFrom(_)
CapacitiesFrom(c) ==
    IF Overflows(c) THEN {c} ELSE {c} \cup CapacitiesFrom(c * 2)

\* cmd_parse at its loop test with `stored` tokens of a longer line behind it and
\* the line `rest` still to cut: a state a line of that many tokens puts it in.
InLoop(stored, rest) ==
    LET r == Strtok(Append(rest, NUL), 1, NULLP, Delims)
    IN  /\ pc = "while" /\ line = rest /\ base = stored /\ position = stored
        /\ bufsize = CapacityAt(stored) /\ tokens = <<>>
        /\ line_copy = r.buf /\ save = r.save /\ token = r.tok
        /\ input = Append(rest, NUL)

InitGrow ==
    /\ CommonInit /\ ShellInit
    /\ allocFail = FALSE /\ pw = NoEntry /\ stdinTty = FALSE
    /\ \/ TextInit /\ input \in {Append(Rep(n), NUL) : n \in 0..MaxTokens}
       \/ \E c \in CapacitiesFrom(InitialBufsize), d \in 1..MaxTail, n \in 0..MaxTail :
            InLoop(c - d, Rep(n))

SpecGrow == InitGrow /\ [][cmd_parse_step]_vars

\* At the loop test the slot about to be written lies inside the array, whose
\* capacity is the one CapacityAt gives.
LoopBound ==
    pc = "while" => /\ 0 <= position /\ position < bufsize
                    /\ bufsize = CapacityAt(position)

\* A vector cmd_parse returns holds one token for each maximal run of the part
\* of the line the model holds.
ReturnedAll ==
    last.op = "cmd_parse" =>
        Len(Walk(last.ret, last.base)) = Cardinality({i \in 1..Len(last.arg) :
            last.arg[i] \notin Delims /\ (i = 1 \/ last.arg[i - 1] \in Delims)})

----------------------------------------------------------------------------
(* The claims.                                                             *)

Min(S) == CHOOSE x \in S : \A y \in S : x <= y
Max(S) == CHOOSE x \in S : \A y \in S : y <= x

\* The separators the specification names: space, tab, carriage return, newline.
Separators == {" ", "HT", "CR", "LF"}

\* Where the maximal runs of non-separator characters of s start, and where the
\* run starting at i ends.
RunStarts(s) ==
    {i \in 1..Len(s) : s[i] \notin Separators /\ (i = 1 \/ s[i - 1] \in Separators)}
RunEnd(s, i) ==
    Min({j \in i..Len(s) : j = Len(s) \/ s[j + 1] \in Separators})

\* The runs in left-to-right order: the k-th is the one with k - 1 starts before it.
MaximalRuns(s) ==
    LET starts == RunStarts(s)
    IN  [k \in 1..Cardinality(starts) |->
            LET i == CHOOSE x \in starts : Cardinality({y \in starts : y < x}) = k - 1
            IN  SubSeq(s, i, RunEnd(s, i))]

\* C1: the vector cmd_parse returns holds exactly the maximal runs of
\* non-separator characters of the line, in order, then the terminator; no token
\* is empty, and a line with no such run gives the terminator alone.
C1_TokensAreMaximalRuns ==
    last.op = "cmd_parse" =>
        LET runs == MaximalRuns(last.arg)
            v == last.ret
        IN  /\ DOMAIN v = 0..Len(runs)
            /\ \A k \in 1..Len(runs) : v[k - 1] = runs[k] /\ v[k - 1] # <<>>
            /\ v[Len(runs)] = NULLS
            /\ (RunStarts(last.arg) = {} => Walk(v, 0) = <<>>)

C1_Witness ==
    /\ last.op = "cmd_parse"
    /\ last.arg = <<"a", " ", "HT", "b">>
    /\ Walk(last.ret, 0) = << <<"a">>, <<"b">> >>

\* C2: cmd_parse returns every token of a line of any length: while allocations
\* succeed it never ends the process, the slot it writes is below the capacity at
\* every step, and the vector returned holds as many tokens as the line has.
C2_UnboundedTokens ==
    /\ running = "running"
    /\ pc = "while" => position < bufsize
    /\ last.op = "cmd_parse" =>
           Len(Walk(last.ret, last.base)) = Len(MaximalRuns(last.arg))

\* C3: once an allocation of cmd_parse has failed the process is over: cmd_parse
\* neither goes on cutting tokens nor returns.
AllocationFailures ==
    {"malloc failed", "strdup(line) failed", "strdup(token) failed", "realloc failed"}

C3_AllocationFailureIsFatal ==
    (\E i \in 1..Len(trace) : trace[i] \in AllocationFailures) => running # "running"

\* isspace: the whitespace characters of the "C" locale.
Whitespace == {" ", "HT", "LF", "VT", "FF", "CR"}

\* s without its leading and trailing whitespace.
Stripped(s) ==
    LET keep == {i \in 1..Len(s) : s[i] \notin Whitespace}
    IN  IF keep = {} THEN <<>> ELSE SubSeq(s, Min(keep), Max(keep))

\* C4: trim_white returns a pointer into the buffer it was given, at which the
\* buffer now holds the old content without its leading and trailing whitespace
\* (the empty string when there was nothing else); a NULL argument comes back
\* as NULL.
C4_TrimWhite ==
    last.op = "trim_white" =>
        IF last.arg = NULLS
        THEN last.ret = NULLP /\ input = NULLS
        ELSE /\ last.ret \in 1..Len(last.arg)
             /\ Len(input) = Len(last.arg)
             /\ CStr(input, last.ret) = Stripped(CStr(last.arg, 1))

C4_Witness ==
    /\ last.op = "trim_white"
    /\ last.arg = <<"VT", "a", "b", "LF", NUL>>
    /\ last.ret = 2
    /\ CStr(input, last.ret) = <<"a", "b">>

\* C5: get_prompt returns the value of the variable when it is set, the empty
\* string included, and "shell>" when it is not set; the environment is the
\* same after the call.
C5_GetPrompt ==
    /\ [](last.op = "get_prompt" =>
            /\ env[last.arg] = Unset => last.ret = "shell>"
            /\ env[last.arg] # Unset => last.ret = env[last.arg])
    /\ [][last'.op = "get_prompt" => env' = env]_vars

C5_Witness ==
    /\ last.op = "get_prompt" /\ last.arg = "MY_PROMPT"
    /\ env["MY_PROMPT"] = "" /\ last.ret = ""

\* The directory the precedence of the specification picks: the second element,
\* else HOME, else the user-database entry, else none.
Wanted(dir) ==
    IF Len(dir) >= 2 THEN dir[2]
    ELSE IF env["HOME"] # Unset THEN env["HOME"]
    ELSE IF pw # NoEntry THEN pw
    ELSE NoTarget

ChdirCalls(calls) == SelectSeq(calls, LAMBDA c : c.call = "chdir")

\* C6: change_dir calls chdir once, on the directory the precedence picks, and
\* returns 0 exactly when that call succeeds, the working directory then being
\* that directory; with no directory to pick it returns -1, calls chdir not at
\* all and leaves the working directory alone.
C6_ChangeDir ==
    last.op = "change_dir" =>
        LET want == Wanted(last.arg)
        IN  IF want = NoTarget
            THEN /\ ChdirCalls(trace) = <<>>
                 /\ last.ret = 0 - 1
                 /\ cwd = last.from
            ELSE /\ ChdirCalls(trace) = <<Call("chdir", want)>>
                 /\ last.ret = 0 <=> want \in Dirs
                 /\ last.ret = 0 => cwd = want
                 /\ last.ret # 0 => last.ret = 0 - 1 /\ cwd = last.from

C6_Witness ==
    /\ last.op = "change_dir" /\ last.arg = <<"cd">>
    /\ env["HOME"] = Unset /\ pw = "/home/u"
    /\ last.ret = 0 /\ last.from = "/tmp" /\ cwd = "/home/u"

\* The first token of an argument vector, Unset for an absent or empty vector.
First(argv) == IF argv = NULLS \/ argv = <<>> THEN Unset ELSE argv[1]

\* C7: with SKIP_EXIT equal to "1", do_builtin returns and answers true exactly
\* for a first token "exit", "cd" or "history"; "cd" answers true whether or not
\* the change succeeds, and a failed change leaves the working directory alone;
\* every call but "cd" changes nothing.
C7_Handled ==
    /\ []((last.op = "do_builtin" /\ env["SKIP_EXIT"] = "1") =>
            /\ running = "running"
            /\ last.ret = (First(last.arg) \in {"exit", "cd", "history"})
            /\ First(last.arg) # "cd" => cwd = last.from /\ trace \in {<<>>, <<Call("getenv", "SKIP_EXIT")>>}
            /\ (First(last.arg) = "cd" /\ Wanted(last.arg) \notin Dirs) => cwd = last.from)
    /\ [][(last'.op = "do_builtin" /\ env["SKIP_EXIT"] = "1") =>
            /\ UNCHANGED <<env, sh, heap, pgrp, termFg, running>>
            /\ First(last'.arg) # "cd" => cwd' = cwd]_vars

C7_Witness ==
    /\ last.op = "do_builtin" /\ env["SKIP_EXIT"] = "1"
    /\ last.arg = <<"cd", "/invalid/path">>
    /\ last.ret = TRUE /\ cwd = last.from /\ running = "running"

\* C8: do_builtin ends the process exactly when the first token is "exit" and
\* SKIP_EXIT is not "1" (unset, empty and every other value included); with
\* SKIP_EXIT equal to "1" a call answers true for "exit" and the process goes on.
C8_ExitUnlessBypassed ==
    /\ [](/\ last.op = "do_builtin" =>
               (running # "running" <=>
                    (First(last.arg) = "exit" /\ env["SKIP_EXIT"] # "1"))
          /\ running # "running" => last.op = "do_builtin" /\ running = "exit0"
          /\ (last.op = "do_builtin" /\ First(last.arg) = "exit" /\ running = "running")
                 => last.ret = TRUE)
    /\ [][(last'.op = "do_builtin" /\ env["SKIP_EXIT"] = "1") => running' = "running"]_vars

C8_Witness ==
    /\ last.op = "do_builtin" /\ last.arg = <<"exit">>
    /\ env["SKIP_EXIT"] = "10" /\ running = "exit0"

\* C9: after sh_init the prompt is a live string; after sh_destroy it is NULL;
\* sh_destroy changes no other field; no prompt string is freed twice, and
\* sh_destroy on a session whose prompt is NULL frees nothing and changes nothing.
C9_Lifecycle ==
    /\ [](/\ (last.op = "sh_init" /\ last.arg = "sh" /\ running = "running") =>
                /\ sh.prompt \in DOMAIN heap
                /\ heap[sh.prompt].frees = 0
          /\ (last.op = "sh_destroy" /\ last.arg = "sh") => sh.prompt = NULLP
          /\ \A i \in DOMAIN heap : heap[i].frees <= 1)
    /\ [][(last'.op = "sh_destroy") =>
            /\ sh' = [sh EXCEPT !.prompt = sh'.prompt]
            /\ sh.prompt = NULLP => sh' = sh /\ heap' = heap]_vars

C9_Witness ==
    /\ last.op = "sh_destroy" /\ last.arg = "sh"
    /\ sh.prompt = NULLP /\ trace = <<>>
    /\ \E i \in DOMAIN heap : heap[i].frees = 1

\* Whether the specification has sh_init set up terminal control.
WantsTc == stdinTty /\ env["SKIP_TC"] # "1"

\* C10: sh_init sets up terminal control exactly when standard input is a
\* terminal and SKIP_TC is not "1"; the steps then come in the order own pid,
\* setpgid, tcgetattr, tcsetpgrp, and a failed setpgid ends the process before
\* the later steps and before the prompt is set; otherwise no such call is made
\* and the process-group and terminal-attribute fields keep their values; the
\* prompt from MY_PROMPT comes last on every path that returns.
C10_TerminalControl ==
    /\ []((last.op = "sh_init" /\ last.arg = "sh") =>
            /\ running \in {"running", "exit1"}
            /\ running = "exit1" => WantsTc
            /\ running = "running" =>
                 /\ trace[Len(trace)] = Call("get_prompt", "MY_PROMPT")
                 /\ heap[sh.prompt].str =
                        (IF env["MY_PROMPT"] = Unset THEN "shell>" ELSE env["MY_PROMPT"])
            /\ [i \in 1..(Len(trace) - 2) |-> trace[i + 2].call] =
                 (IF ~WantsTc THEN <<"get_prompt">>
                  ELSE IF running = "running"
                  THEN <<"getpid", "setpgid", "tcgetattr", "tcsetpgrp", "get_prompt">>
                  ELSE <<"getpid", "setpgid", "perror", "exit">>)
            /\ (WantsTc /\ running = "running") => sh.shell_pgid = Pid /\ pgrp = Pid)
    /\ [][(last'.op = "sh_init" /\ last'.arg = "sh") =>
            /\ ~WantsTc => /\ sh'.shell_pgid = sh.shell_pgid
                           /\ sh'.shell_tmodes = sh.shell_tmodes
                           /\ pgrp' = pgrp /\ termFg' = termFg
            /\ running' # "running" => /\ sh'.prompt = sh.prompt /\ heap' = heap
                                       /\ sh'.shell_tmodes = sh.shell_tmodes
                                       /\ termFg' = termFg]_vars

C10_Witness ==
    /\ last.op = "sh_init" /\ last.arg = "sh"
    /\ stdinTty /\ env["SKIP_TC"] = "10" /\ running = "running"
    /\ sh.shell_pgid = Pid /\ pgrp = Pid /\ termFg = Pid /\ sh.shell_tmodes = TermAttrs

============================================================================
